---- MODULE Spec2Model ----
(***************************************************************************)
(* Model of the OPC UA node set generator of aas-core-codegen              *)
(* (aas_core_codegen/opcua/main.py and aas_core_codegen/opcua/naming.py).  *)
(*                                                                         *)
(* A Python string is modelled as a sequence of chunks (TLA+ strings)      *)
(* whose concatenation is the Python string.  Strings that the code        *)
(* computes on character by character (identifiers, decimal numbers) are   *)
(* sequences of one-character chunks; string literals of the code are one  *)
(* chunk.  A text of several lines is a sequence of lines.                 *)
(*                                                                         *)
(* An Optional[T] of Python is a sequence of zero (None) or one element.   *)
(***************************************************************************)
EXTENDS Integers, Sequences, FiniteSets, TLC

(***************************************************************************)
(* Bounds of the explored inputs.                                          *)
(***************************************************************************)
\* Largest number of enumerations in a symbol table.
MaxEnums == 1
\* Largest number of literals of one enumeration.
MaxLiterals == 1
\* Largest number of classes in a symbol table.
MaxClasses == 2
\* Largest number of properties in a symbol table, over all its classes.
MaxProps == 2
\* Number of calls of _generate made one after another in one process.
MaxRuns == 2


(***************************************************************************)
(* State.                                                                  *)
(***************************************************************************)
VARIABLES
    symbol_table,           \* the argument of _generate, the same in every run
    pc,                     \* position of the current call of _generate
    identifier_machine,     \* local identifier_machine (zero or one object)
    our_type_to_identifier, \* local our_type_to_identifier (OrderedDict)
    root,                   \* local root (zero or one element)
    idx,                    \* position of the running for loop, from 1
    result,                 \* the returned (text, errors), once returned
    exception,              \* the exception that left _generate, once raised
    run,                    \* number of the current call of _generate, from 1
    history,                \* the outcomes of the earlier calls, oldest first
    stdout,                 \* what execute has written to stdout
    stderr,                 \* the error reports that execute has written to stderr
    files,                  \* the files of the output directory, as written
    return_code,            \* the value returned by execute, once returned
    write_exception         \* the exception of pth.write_text, if it raised

\* What execute acts on after the call of _generate.
io == <<stdout, stderr, files, return_code, write_exception>>

vars == <<symbol_table, pc, identifier_machine, our_type_to_identifier, root,
          idx, result, exception, run, history, io>>

(***************************************************************************)
(* Character helpers.                                                      *)
(***************************************************************************)
LowerCase == <<"a", "b", "c", "d", "e", "f", "g", "h", "i", "j", "k", "l", "m",
               "n", "o", "p", "q", "r", "s", "t", "u", "v", "w", "x", "y", "z">>

UpperCase == <<"A", "B", "C", "D", "E", "F", "G", "H", "I", "J", "K", "L", "M",
               "N", "O", "P", "Q", "R", "S", "T", "U", "V", "W", "X", "Y", "Z">>

DecimalDigits == <<"0", "1", "2", "3", "4", "5", "6", "7", "8", "9">>

\* str.upper() on one character.
Upper(c) ==
    IF \E k \in 1..Len(LowerCase) : LowerCase[k] = c
    THEN UpperCase[CHOOSE k \in 1..Len(LowerCase) : LowerCase[k] = c]
    ELSE c

\* str.lower() on one character.
Lower(c) ==
    IF \E k \in 1..Len(UpperCase) : UpperCase[k] = c
    THEN LowerCase[CHOOSE k \in 1..Len(UpperCase) : UpperCase[k] = c]
    ELSE c

\* str.capitalize(): first character upper case, the rest lower case.
Capitalize(part) ==
    [k \in 1..Len(part) |-> IF k = 1 THEN Upper(part[k]) ELSE Lower(part[k])]

RECURSIVE SplitOnUnderscore(_)
\* str.split("_"): the parts between the underscores, empty parts included.
SplitOnUnderscore(s) ==
    IF \A k \in 1..Len(s) : s[k] /= "_"
    THEN <<s>>
    ELSE LET k == CHOOSE j \in 1..Len(s) :
                      s[j] = "_" /\ \A h \in 1..(j - 1) : s[h] /= "_"
         IN  <<SubSeq(s, 1, k - 1)>> \o SplitOnUnderscore(SubSeq(s, k + 1, Len(s)))

RECURSIVE Concat(_)
\* "".join(parts)
Concat(parts) ==
    IF parts = <<>> THEN <<>> ELSE Head(parts) \o Concat(Tail(parts))

RECURSIVE IntToStr(_)
\* str(n) of a non-negative integer, as used by the f-strings.
IntToStr(n) ==
    IF n < 10
    THEN <<DecimalDigits[n + 1]>>
    ELSE IntToStr(n \div 10) \o <<DecimalDigits[(n % 10) + 1]>>

(***************************************************************************)
(* Naming.                                                                 *)
(***************************************************************************)
\* aas_core_codegen.naming.capitalized_camel_case
capitalized_camel_case(identifier) ==
    LET parts == SplitOnUnderscore(identifier)
    IN  Concat([k \in 1..Len(parts) |-> Capitalize(parts[k])])

data_type_name(identifier) ==
    capitalized_camel_case(identifier) \o <<"DataType">>

enum_literal_name(identifier) ==
    capitalized_camel_case(identifier)

(***************************************************************************)
(* The symbol table (the input of the generation).                         *)
(***************************************************************************)
\* intermediate.PrimitiveType
PrimitiveType == {"BOOL", "INT", "FLOAT", "STR", "BYTEARRAY"}

\* Names of the enumerations, by position of declaration.
EnumNames == << <<"C", "o", "l", "o", "r">>,
                <<"m", "o", "d", "e", "l", "l", "i", "n", "g", "_", "k", "i", "n", "d">>,
                <<"D", "a", "t", "a", "_", "t", "y", "p", "e", "_", "d", "e", "f", "_", "X", "S", "D">> >>

\* Names and values of the literals of an enumeration, by position.
LiteralNames == << <<"R", "E", "D">>,
                   <<"G", "R", "E", "E", "N">>,
                   <<"B", "l", "u", "e", "_", "i", "s", "h">> >>

LiteralValues == << <<"0">>, <<"1">>, <<"2">> >>

\* Names of the classes, by position of declaration.
ClassNames == << <<"P", "o", "i", "n", "t">>,
                 <<"H", "a", "s", "_", "s", "e", "m", "a", "n", "t", "i", "c", "s">>,
                 <<"S", "o", "m", "e", "_", "U", "R", "L">>,
                 <<"q", "u", "a", "l", "i", "f", "i", "e", "r">> >>

\* Names of the properties of a class, by position.
PropNames == << <<"x">>,
                <<"y">>,
                <<"v", "a", "l", "u", "e", "_", "t", "y", "p", "e">>,
                <<"i", "d", "_", "s", "h", "o", "r", "t">> >>

\* The constrained primitive of the meta-model: an OurType that is neither an
\* enumeration nor a class.
ConstrainedPrimitiveName ==
    <<"N", "o", "n", "_", "e", "m", "p", "t", "y", "_", "s", "t", "r", "i", "n", "g">>

PrimitiveTypeAnnotation(a_type) ==
    [tag |-> "PrimitiveTypeAnnotation", a_type |-> a_type]

\* our_type is the name of the referenced entity; names are unique in a symbol
\* table, so the name stands for the referenced object.
OurTypeAnnotation(our_type) ==
    [tag |-> "OurTypeAnnotation", our_type |-> our_type]

ListTypeAnnotation(items) ==
    [tag |-> "ListTypeAnnotation", items |-> items]

OptionalTypeAnnotation(value) ==
    [tag |-> "OptionalTypeAnnotation", value |-> value]

\* The enumerations of a symbol table with literal_counts[k] literals in the
\* k-th enumeration.
EnumerationsWith(literal_counts) ==
    [k \in 1..Len(literal_counts) |->
        [kind     |-> "Enumeration",
         name     |-> EnumNames[k],
         literals |-> [j \in 1..literal_counts[k] |->
                          [name |-> LiteralNames[j], value |-> LiteralValues[j]]]]]

\* The type annotations a property may carry in a symbol table with
\* enum_count enumerations, when the first class exists.  Optional never wraps
\* another Optional; a reference never dangles.
TypeAnnotations(enum_count) ==
    LET bare ==
              {PrimitiveTypeAnnotation(a_type) : a_type \in PrimitiveType}
         \cup {OurTypeAnnotation(ConstrainedPrimitiveName)}
         \cup {OurTypeAnnotation(EnumNames[k]) : k \in 1..(IF enum_count > 0 THEN 1 ELSE 0)}
         \cup {OurTypeAnnotation(ClassNames[1])}
         \cup {ListTypeAnnotation(OurTypeAnnotation(ClassNames[1]))}
         \cup {ListTypeAnnotation(PrimitiveTypeAnnotation("INT"))}
    IN  bare \cup {OptionalTypeAnnotation(anno) : anno \in bare}

\* The properties of a class with the given type annotations.
PropertiesWith(annos) ==
    [j \in 1..Len(annos) |-> [name |-> PropNames[j], type_annotation |-> annos[j]]]

\* The sequences of exactly n elements of S.
SeqsOfLen(S, n) == [1..n -> S]

RECURSIVE ClassSeqs(_, _, _)
\* The sequences of class_count classes with prop_count properties in total.
\* A class inherits from at most one class declared before it.  All are
\* concrete here; FixKinds makes the inherited ones abstract.
ClassSeqs(class_count, prop_count, enum_count) ==
    IF class_count = 0
    THEN IF prop_count = 0 THEN {<<>>} ELSE {}
    ELSE UNION {
            { Append(prefix,
                     [kind         |-> "ConcreteClass",
                      name         |-> ClassNames[class_count],
                      inheritances |-> parents,
                      properties   |-> PropertiesWith(annos)])
              : prefix \in ClassSeqs(class_count - 1, prop_count - n, enum_count),
                parents \in {<<>>} \cup {<<ClassNames[p]>> : p \in 1..(class_count - 1)},
                annos \in SeqsOfLen(TypeAnnotations(enum_count), n) }
            : n \in 0..prop_count }

\* A class that another class inherits from is abstract.
FixKinds(classes) ==
    [k \in 1..Len(classes) |->
        IF \E j \in 1..Len(classes) : classes[j].inheritances = <<classes[k].name>>
        THEN [classes[k] EXCEPT !.kind = "AbstractClass"]
        ELSE classes[k]]

\* The symbol tables the generation is run on.
SymbolTables ==
    UNION {
        { [enumerations           |-> EnumerationsWith(literal_counts),
           constrained_primitives |-> <<[kind |-> "ConstrainedPrimitive",
                                         name |-> ConstrainedPrimitiveName]>>,
           classes                |-> FixKinds(classes)]
          : literal_counts \in SeqsOfLen(0..MaxLiterals, enum_count),
            classes \in UNION { ClassSeqs(class_count, prop_count, enum_count)
                                : prop_count \in 0..MaxProps } }
        : enum_count \in 0..MaxEnums, class_count \in 0..MaxClasses }

\* symbol_table.our_types: every entity a type annotation can reference.
OurTypes(table) ==
    table.enumerations \o table.constrained_primitives \o table.classes

\* The class of the object that an OurTypeAnnotation references.
KindOf(our_type, table) ==
    LET all == OurTypes(table)
    IN  all[CHOOSE k \in 1..Len(all) : all[k].name = our_type].kind

\* intermediate.beneath_optional
beneath_optional(type_annotation) ==
    IF type_annotation.tag = "OptionalTypeAnnotation"
    THEN type_annotation.value
    ELSE type_annotation

\* The traversal with the classes before the enumerations.
ChainClassesEnumerations(table) ==
    table.classes \o table.enumerations

\* itertools.chain(symbol_table.enumerations, symbol_table.classes)
ChainEnumerationsClasses(table) ==
    table.enumerations \o table.classes

(***************************************************************************)
(* IdentifierMachine.                                                      *)
(***************************************************************************)
\* A counter shared by the process: a later call goes on from the machine
\* that an earlier call left behind.
IdentifierMachine_process_wide ==
    IF identifier_machine = <<>>
    THEN [_next_identifier |-> 5000]
    ELSE identifier_machine[1]

IdentifierMachine_init == [_next_identifier |-> 5000]

\* next() that forgets to increment.
IdentifierMachine_next_no_increment(self) ==
    [result |-> self._next_identifier, self |-> self]

\* The returned identifier and the machine after the call.
IdentifierMachine_next(self) ==
    [result |-> self._next_identifier,
     self   |-> [self EXCEPT !._next_identifier = @ + 1]]

\* our_type_to_identifier[our_type] of the OrderedDict, a sequence of
\* <<key, value>> pairs in insertion order.
Lookup(identifiers, name) ==
    identifiers[CHOOSE k \in 1..Len(identifiers) :
                               identifiers[k][1] = name][2]

\* our_type_to_identifier[our_type] = identifier
SetItem(identifiers, name, identifier) ==
    IF \E k \in 1..Len(identifiers) : identifiers[k][1] = name
    THEN [k \in 1..Len(identifiers) |->
             IF identifiers[k][1] = name
             THEN <<name, identifier>>
             ELSE identifiers[k]]
    ELSE Append(identifiers, <<name, identifier>>)

(***************************************************************************)
(* XML elements (xml.etree.ElementTree.Element).                           *)
(* attrib is the sequence of <<key, value>> pairs in insertion order; text *)
(* and tail are the empty sequence when the element has none; ns is the    *)
(* namespace of a qualified tag "{ns}tag", or "" for an unqualified tag.   *)
(* A new element has no tail.                                              *)
(***************************************************************************)
Element(ns, tag, attrib, text, children) ==
    [ns |-> ns, tag |-> tag, attrib |-> attrib, text |-> text, tail |-> <<>>,
     children |-> children]

OPCUA_NS == "http://opcfoundation.org/UA/2011/03/UANodeSet.xsd"

\* The value of the attribute key of elem, as a sequence of zero or one value.
GetAttrib(elem, key) ==
    LET hits == SelectSeq(elem.attrib, LAMBDA kv : kv[1] = key)
    IN  IF hits = <<>> THEN <<>> ELSE <<hits[1][2]>>

\* The children of elem with the given tag.
ChildrenTagged(elem, tag) ==
    SelectSeq(elem.children, LAMBDA child : child.tag = tag)

\* The map with INT given the 32-bit integer type.
_PRIMITIVE_MAP_int32 ==
    [a_type \in PrimitiveType |->
        CASE a_type = "BOOL"      -> <<"Boolean">>
          [] a_type = "INT"       -> <<"Int32">>
          [] a_type = "FLOAT"     -> <<"Double">>
          [] a_type = "STR"       -> <<"String">>
          [] a_type = "BYTEARRAY" -> <<"ByteString">>]

_PRIMITIVE_MAP ==
    [a_type \in PrimitiveType |->
        CASE a_type = "BOOL"      -> <<"Boolean">>
          [] a_type = "INT"       -> <<"Int64">>
          [] a_type = "FLOAT"     -> <<"Double">>
          [] a_type = "STR"       -> <<"String">>
          [] a_type = "BYTEARRAY" -> <<"ByteString">>]

\* The aliases of the primitive values, as (name, i) pairs.
PrimitiveAliases ==
    << <<"Boolean", 1>>, <<"Int64", 8>>, <<"Double", 11>>, <<"String", 12>>,
       <<"ByteString", 15>> >>

\* Aliases for the classes only.
AliasedOurTypes_classes_only(table) ==
    table.classes

\* The entities that _generate_aliases gives an alias, in its order.
AliasedOurTypes(table) ==
    ChainEnumerationsClasses(table)

_generate_aliases(table, identifiers) ==
    LET our_types == AliasedOurTypes(table)
        primitive ==
            [k \in 1..Len(PrimitiveAliases) |->
                Element("", "Alias",
                        << <<"Alias", <<PrimitiveAliases[k][1]>> >> >>,
                        <<"i=">> \o IntToStr(PrimitiveAliases[k][2]),
                        <<>>)]
        ours ==
            [k \in 1..Len(our_types) |->
                Element("", "Alias",
                        << <<"Alias", data_type_name(our_types[k].name)>> >>,
                        <<"ns=1;i=">>
                            \o IntToStr(Lookup(identifiers, our_types[k].name)),
                        <<>>)]
    IN  Element("", "Aliases", <<>>, <<>>, primitive \o ours)

_generate_for_enum(enum, identifiers) ==
    LET name == data_type_name(enum.name)
        fields ==
            [k \in 1..Len(enum.literals) |->
                Element("", "Field",
                        << <<"Name", enum_literal_name(enum.literals[k].name)>>,
                           <<"Value", enum.literals[k].value>> >>,
                        <<>>,
                        << Element("", "DisplayName", <<>>,
                                   enum_literal_name(enum.literals[k].name), <<>>) >>)]
    IN  Element("", "UADataType",
                << <<"NodeId", <<"ns=1;i=">>
                                  \o IntToStr(Lookup(identifiers, enum.name))>>,
                   <<"BrowseName", <<"1:">> \o name>> >>,
                <<>>,
                << Element("", "DisplayName", <<>>, name, <<>>),
                   Element("", "Description", <<>>, <<"Enumeration for ">> \o name, <<>>),
                   Element("", "Definition",
                           << <<"Name", name>>, <<"IsUnion", <<"false">> >> >>,
                           <<>>, fields) >>)

\* The HasSubtype reference pointing at the declared parent, when there is one.
HasSubtypeTarget_parent(cls) ==
    IF cls.inheritances /= <<>>
    THEN data_type_name(cls.inheritances[1])
    ELSE <<"i=22">>

\* The text of the HasSubtype reference of a class.
HasSubtypeTarget(cls) == <<"i=22">>

\* The outcome of determining the data type of the field of one property:
\* either the value of the DataType attribute, or the raised exception.
FieldDataType(prop, table) ==
    LET type_anno == beneath_optional(prop.type_annotation)
    IN  IF type_anno.tag = "PrimitiveTypeAnnotation"
        THEN [raised |-> <<>>, data_type |-> _PRIMITIVE_MAP[type_anno.a_type]]
        ELSE IF type_anno.tag = "OurTypeAnnotation"
        THEN IF KindOf(type_anno.our_type, table) = "Enumeration"
             THEN [raised |-> <<>>, data_type |-> data_type_name(type_anno.our_type)]
             ELSE IF KindOf(type_anno.our_type, table)
                         \in {"AbstractClass", "ConcreteClass"}
             THEN [raised |-> <<>>, data_type |-> data_type_name(type_anno.our_type)]
             ELSE [raised |-> <<[type    |-> "NotImplementedError",
                                 message |-> "Unsupported type",
                                 about   |-> prop.name]>>,
                   data_type |-> <<>>]
        ELSE [raised |-> <<[type    |-> "NotImplementedError",
                            message |-> "Unsupported type annotation",
                            about   |-> prop.name]>>,
              data_type |-> <<>>]

\* The result of _generate_definition: the raised exception (of the first
\* property in declaration order that raises) or else the returned list.
_generate_definition(cls, identifiers, table) ==
    LET name == data_type_name(cls.name)
        outcomes ==
            [k \in 1..Len(cls.properties) |-> FieldDataType(cls.properties[k], table)]
        raising == {k \in 1..Len(outcomes) : outcomes[k].raised /= <<>>}
        fields ==
            [k \in 1..Len(cls.properties) |->
                Element("", "Field",
                        << <<"Name", cls.properties[k].name>>,
                           <<"DataType", outcomes[k].data_type>> >>,
                        <<>>, <<>>)]
        data_type ==
            Element("", "UADataType",
                    << <<"NodeId", <<"ns=1;i=">>
                                      \o IntToStr(Lookup(identifiers, cls.name))>>,
                       <<"BrowseName", <<"1:">> \o name>> >>,
                    <<>>,
                    << Element("", "DisplayName", <<>>, name, <<>>),
                       Element("", "Description", <<>>, <<"DataType for ">> \o name, <<>>),
                       Element("", "References", <<>>, <<>>,
                               << Element("", "Reference",
                                          << <<"ReferenceType", <<"HasSubtype">> >>,
                                             <<"IsForward", <<"false">> >> >>,
                                          HasSubtypeTarget(cls), <<>>) >>),
                       Element("", "Definition",
                               << <<"Name", name>>, <<"IsUnion", <<"false">> >> >>,
                               <<>>, fields) >>)
    IN  IF raising /= {}
        THEN [raised |-> outcomes[CHOOSE k \in raising : \A j \in raising : k <= j].raised,
              result |-> <<>>]
        ELSE [raised |-> <<>>, result |-> <<data_type>>]

\* The document that _generate starts from: the root with NamespaceUris and
\* Models.
NodeSetShell ==
    Element(OPCUA_NS, "UANodeSet", <<>>, <<>>,
            << Element(OPCUA_NS, "NamespaceUris", <<>>, <<>>,
                       << Element(OPCUA_NS, "Uri", <<>>, <<"https://dummy/198/4">>, <<>>) >>),
               Element(OPCUA_NS, "Models", <<>>, <<>>,
                       << Element(OPCUA_NS, "Model",
                                  << <<"ModelUri", <<"https://dummy/198/4">> >>,
                                     <<"Version", <<"V198.4">> >>,
                                     <<"PublicationDate", <<"2023-10-10T00:00:00Z">> >> >>,
                                  <<>>,
                                  << Element(OPCUA_NS, "RequiredModel",
                                             << <<"ModelUri", <<"http://opcfoundation.org/UA/">> >>,
                                                <<"Version", <<"1.04.3">> >>,
                                                <<"PublicationDate", <<"2019-09-09T00:00:00Z">> >> >>,
                                             <<>>, <<>>) >>) >>) >>)

\* root.append(element) and root.extend(elements)
Extend(tree, elements) ==
    [tree EXCEPT !.children = @ \o elements]

(***************************************************************************)
(* Serialization: indent(root), ET.tostring, minidom.parseString,          *)
(* toprettyxml(indent="  ") and the removal of the blank lines.            *)
(* The names and values of the explored inputs contain no character that   *)
(* XML escapes.  A whitespace string is a sequence of the chunks "\n" and  *)
(* "  ".                                                                   *)
(***************************************************************************)
\* level times the indentation unit.
Indentation(level) == [k \in 1..level |-> "  "]

\* not s or not s.strip(): s is missing, empty or whitespace only
IsBlank(s) ==
    \A k \in 1..Len(s) : s[k] \in {"\n", "  "}

RECURSIVE indent(_, _)
\* indent(elem, level): elem with the whitespace set in place, as text of the
\* elements that have children and as tail of the elements below the root.
indent(elem, level) ==
    LET i == <<"\n">> \o Indentation(level)
    IN  IF Len(elem.children) > 0
        THEN LET last == Len(elem.children)
                 children ==
                     [k \in 1..last |->
                         LET child == indent(elem.children[k], level + 1)
                             in_loop == IF IsBlank(child.tail)
                                        THEN [child EXCEPT !.tail = i \o <<"  ">>]
                                        ELSE child
                         IN  IF k = last /\ IsBlank(in_loop.tail)
                             THEN [in_loop EXCEPT !.tail = i]
                             ELSE in_loop]
             IN  [elem EXCEPT !.text = IF IsBlank(elem.text) THEN i \o <<"  ">> ELSE @,
                              !.children = children]
        ELSE IF level > 0 /\ IsBlank(elem.tail)
             THEN [elem EXCEPT !.tail = i]
             ELSE elem

RECURSIVE SplitOnNewline(_)
\* s.split("\n"): the lines of s.
SplitOnNewline(s) ==
    IF \A k \in 1..Len(s) : s[k] /= "\n"
    THEN <<s>>
    ELSE LET k == CHOOSE j \in 1..Len(s) :
                      s[j] = "\n" /\ \A h \in 1..(j - 1) : s[h] /= "\n"
         IN  <<SubSeq(s, 1, k - 1)>> \o SplitOnNewline(SubSeq(s, k + 1, Len(s)))

\* The start tag of elem without its closing bracket.  ElementTree declares the
\* namespace once, on the root (level 0), registered with the empty prefix.
StartTag(elem, level) ==
    <<"<", elem.tag>>
        \o (IF level = 0 /\ elem.ns /= "" THEN <<" xmlns=\"", elem.ns, "\"">> ELSE <<>>)
        \o Concat([k \in 1..Len(elem.attrib) |->
                      <<" ", elem.attrib[k][1], "=\"">> \o elem.attrib[k][2] \o <<"\"">>])

\* Text.writexml of minidom for a text or a tail of the tree, which
\* ET.tostring writes and minidom parses as a text node: the indentation, the
\* data and a newline, as lines.  No node when there is no text.
TextNode(data, level) ==
    IF data = <<>>
    THEN <<>>
    ELSE SplitOnNewline(Indentation(level) \o data)

RECURSIVE WriteXml(_, _)
\* Element.writexml of minidom: the lines written for elem at the given
\* level.  An element whose only child node is its text is written on one
\* line; otherwise each child node, element or text, is written on lines of
\* its own.
WriteXml(elem, level) ==
    IF elem.children = <<>>
    THEN IF elem.text = <<>>
         THEN << Indentation(level) \o StartTag(elem, level) \o <<"/>">> >>
         ELSE << Indentation(level) \o StartTag(elem, level) \o <<">">>
                    \o elem.text \o <<"</", elem.tag, ">">> >>
    ELSE    << Indentation(level) \o StartTag(elem, level) \o <<">">> >>
         \o TextNode(elem.text, level + 1)
         \o Concat([k \in 1..Len(elem.children) |->
                       WriteXml(elem.children[k], level + 1)
                           \o TextNode(elem.children[k].tail, level + 1)])
         \o << Indentation(level) \o <<"</", elem.tag, ">">> >>

\* ET.tostring(tree), minidom.parseString and dom.toprettyxml(indent="  "),
\* split into lines.
ToPrettyXml(tree) ==
    << <<"<?xml version=\"1.0\" ?>">> >> \o WriteXml(tree, 0)

\* '\n'.join([line for line in text.split('\n') if line.strip()]), as lines
StripBlankLines(lines) ==
    SelectSeq(lines, LAMBDA line : ~IsBlank(line))

(***************************************************************************)
(* _generate, one step per statement or loop iteration.                    *)
(***************************************************************************)
\* The postconditions of _generate on result = (text, errors).
Postconditions(text, errors) ==
    /\ ~(errors /= <<>>) \/ Len(errors[1]) >= 1
    /\ (text /= <<>>) /= (errors /= <<>>)

\* The position after the aliases or after the last enumeration.
AfterEnumerations ==
    IF symbol_table.classes /= <<>> THEN "classes" ELSE "serialize"

Init ==
    /\ symbol_table \in SymbolTables
    /\ pc = "idle"
    /\ identifier_machine = <<>>
    /\ our_type_to_identifier = <<>>
    /\ root = <<>>
    /\ idx = 1
    /\ result = <<>>
    /\ exception = <<>>
    /\ run = 1
    /\ history = <<>>
    /\ stdout = <<>>
    /\ stderr = <<>>
    /\ files = <<>>
    /\ return_code = <<>>
    /\ write_exception = <<>>

\* The call and the statements up to the allocation loop: the document shell,
\* a new IdentifierMachine and an empty mapping.
Begin ==
    /\ pc = "idle"
    /\ root' = <<NodeSetShell>>
    /\ identifier_machine' = <<IdentifierMachine_init>>
    /\ our_type_to_identifier' = <<>>
    /\ idx' = 1
    /\ result' = <<>>
    /\ exception' = <<>>
    /\ pc' = IF ChainEnumerationsClasses(symbol_table) = <<>> THEN "aliases" ELSE "allocate"
    /\ UNCHANGED <<symbol_table, run, history, io>>

\* One iteration of the allocation loop.
Allocate ==
    /\ pc = "allocate"
    /\ LET our_types == ChainEnumerationsClasses(symbol_table)
           called == IdentifierMachine_next(identifier_machine[1])
       IN  /\ our_type_to_identifier' =
                  SetItem(our_type_to_identifier, our_types[idx].name, called.result)
           /\ identifier_machine' = <<called.self>>
           /\ idx' = IF idx = Len(our_types) THEN 1 ELSE idx + 1
           /\ pc' = IF idx = Len(our_types) THEN "aliases" ELSE "allocate"
    /\ UNCHANGED <<symbol_table, root, result, exception, run, history, io>>

\* aliases = _generate_aliases(...); root.append(aliases)
GenerateAliases ==
    /\ pc = "aliases"
    /\ root' = <<Extend(root[1], <<_generate_aliases(symbol_table, our_type_to_identifier)>>)>>
    /\ idx' = 1
    /\ pc' = IF symbol_table.enumerations /= <<>> THEN "enums" ELSE AfterEnumerations
    /\ UNCHANGED <<symbol_table, identifier_machine, our_type_to_identifier, result,
                   exception, run, history, io>>

\* One iteration of the loop over the enumerations.
GenerateForEnum ==
    /\ pc = "enums"
    /\ root' = <<Extend(root[1],
                        <<_generate_for_enum(symbol_table.enumerations[idx],
                                             our_type_to_identifier)>>)>>
    /\ idx' = IF idx = Len(symbol_table.enumerations) THEN 1 ELSE idx + 1
    /\ pc' = IF idx = Len(symbol_table.enumerations) THEN AfterEnumerations ELSE "enums"
    /\ UNCHANGED <<symbol_table, identifier_machine, our_type_to_identifier, result,
                   exception, run, history, io>>

\* One iteration of the loop over the classes.  An exception raised in
\* _generate_definition is not caught in _generate and leaves it.
GenerateDefinition ==
    /\ pc = "classes"
    /\ LET called == _generate_definition(symbol_table.classes[idx],
                                          our_type_to_identifier, symbol_table)
       IN  IF called.raised /= <<>>
           THEN /\ exception' = called.raised
                /\ pc' = "raised"
                /\ UNCHANGED <<root, idx>>
           ELSE /\ root' = <<Extend(root[1], called.result)>>
                /\ idx' = IF idx = Len(symbol_table.classes) THEN 1 ELSE idx + 1
                /\ pc' = IF idx = Len(symbol_table.classes) THEN "serialize" ELSE "classes"
                /\ UNCHANGED exception
    /\ UNCHANGED <<symbol_table, identifier_machine, our_type_to_identifier, result,
                   run, history, io>>

\* Indent the document in place, pretty-print it and return (text, None); the
\* postconditions are checked on the returned pair.
Serialize ==
    /\ pc = "serialize"
    /\ root' = <<indent(root[1], 0)>>
    /\ LET text == <<StripBlankLines(ToPrettyXml(root'[1]))>>
           errors == <<>>
       IN  IF Postconditions(text, errors)
           THEN /\ result' = <<[text |-> text, errors |-> errors]>>
                /\ pc' = "returned"
                /\ UNCHANGED exception
           ELSE /\ exception' = <<[type    |-> "ViolationError",
                                   message |-> "postcondition",
                                   about   |-> <<>>]>>
                /\ pc' = "raised"
                /\ UNCHANGED result
    /\ UNCHANGED <<symbol_table, identifier_machine, our_type_to_identifier, idx,
                   run, history, io>>

\* The caller notes the outcome of the finished call and calls _generate on
\* the same symbol table again.
NextRun ==
    /\ pc \in {"returned", "raised"}
    /\ run < MaxRuns
    /\ history' = Append(history,
                         [our_type_to_identifier |-> our_type_to_identifier,
                          result                 |-> result,
                          exception              |-> exception])
    /\ run' = run + 1
    /\ pc' = "idle"
    /\ UNCHANGED <<symbol_table, identifier_machine, our_type_to_identifier, root, idx,
                   result, exception, io>>

(***************************************************************************)
(* execute, after its call of _generate.                                   *)
(***************************************************************************)
\* context.model_path and context.output_dir
ModelPath == <<"meta_model.py">>

OutputDir == <<"output">>

\* pth = context.output_dir / "nodeset.xml"
NodesetPath == OutputDir \o <<"/", "nodeset.xml">>

\* context.lineno_columner.error_message(error): the message of an error with
\* its position, kept as a term over the error.
error_message(error) == [error_message_of |-> error]

\* The call run.write_error_report(message=..., errors=..., stderr=stderr),
\* kept on stderr as one report with the message and the errors passed.
write_error_report(message, errors, err) ==
    Append(err, [message |-> message, errors |-> errors])

\* What a file holds when the first part of the text code, or all of it, has
\* reached it, as the lines of its content, to the precision of a line: the
\* lines before the end of that part, whole, then the line in which it ends,
\* which is empty when it ends at the start of that line and whole when it
\* ends at its end.  partial tells that it ends inside that line: some of
\* the characters of the line, not all, are in the file, and the content
\* does not say which.  An empty file holds one empty line.
Prefixes(code) ==
    UNION { {[content |-> SubSeq(code, 1, n) \o << <<>> >>, partial |-> FALSE],
             [content |-> SubSeq(code, 1, n) \o << <<>> >>, partial |-> code[n + 1] /= <<>>],
             [content |-> SubSeq(code, 1, n + 1),           partial |-> FALSE]} :
            n \in 0..(Len(code) - 1) }

\* The ways pth.write_text(code) can end: the text is written; or it raises
\* with no file created, or with a file that holds the first part of the
\* text, from nothing to all of it.  file is the file, the empty sequence
\* when there is none.
WriteOutcomes(code) ==
         {[raised |-> <<>>, file |-> <<[content |-> code, partial |-> FALSE]>>]}
    \cup {[raised |-> <<"OSError">>, file |-> <<>>]}
    \cup {[raised |-> <<"OSError">>, file |-> <<held>>] : held \in Prefixes(code)}

\* The statements of execute after code, errors = _generate(...), when the
\* write of the file ends as in written: what is on stdout and stderr, the
\* files of the output directory and the returned code.
execute_after_generate(code, errors, written) ==
    IF errors /= <<>>
    THEN [stdout          |-> <<>>,
          stderr          |-> write_error_report(
                                  <<"Failed to generate the OPC UA node set based on ">>
                                      \o ModelPath,
                                  [i \in 1..Len(errors[1]) |-> error_message(errors[1][i])],
                                  <<>>),
          files           |-> <<>>,
          write_exception |-> <<>>,
          return_code     |-> <<1>>]
    ELSE LET on_disk == IF written.file = <<>>
                        THEN <<>>
                        ELSE << [path    |-> NodesetPath,
                                 content |-> written.file[1].content,
                                 partial |-> written.file[1].partial] >>
         IN  IF written.raised /= <<>>
             THEN [stdout          |-> <<>>,
                   stderr          |-> write_error_report(
                                           <<"Failed to write the OPC UA node set to ">>
                                               \o NodesetPath,
                                           <<written.raised>>, <<>>),
                   files           |-> on_disk,
                   write_exception |-> written.raised,
                   return_code     |-> <<1>>]
             ELSE [stdout          |-> << <<"Code generated to: ">> \o OutputDir \o <<"\n">> >>,
                   stderr          |-> <<>>,
                   files           |-> on_disk,
                   write_exception |-> <<>>,
                   return_code     |-> <<0>>]

\* _generate has returned: execute reports the errors, or writes the file,
\* and returns.
ExecuteReturn ==
    /\ pc = "returned"
    /\ \E written \in IF result[1].text = <<>>
                       THEN {[raised |-> <<>>, file |-> <<>>]}
                       ELSE WriteOutcomes(result[1].text[1]) :
          LET after == execute_after_generate(result[1].text, result[1].errors, written)
          IN  /\ stdout' = after.stdout
              /\ stderr' = after.stderr
              /\ files' = after.files
              /\ write_exception' = after.write_exception
              /\ return_code' = after.return_code
    /\ pc' = "exit"
    /\ UNCHANGED <<symbol_table, identifier_machine, our_type_to_identifier, root, idx,
                   result, exception, run, history>>

\* _generate has raised: execute does not catch the exception, which leaves
\* execute with nothing reported, nothing written and no returned code.
ExecutePropagate ==
    /\ pc = "raised"
    /\ pc' = "exit"
    /\ UNCHANGED <<symbol_table, identifier_machine, our_type_to_identifier, root, idx,
                   result, exception, run, history, io>>

Next ==
    \/ Begin
    \/ Allocate
    \/ GenerateAliases
    \/ GenerateForEnum
    \/ GenerateDefinition
    \/ Serialize
    \/ NextRun
    \/ ExecuteReturn
    \/ ExecutePropagate

Spec == Init /\ [][Next]_vars


(***************************************************************************)
(* Properties.                                                             *)
(***************************************************************************)
\* The current call of _generate has ended, by a return or by an exception.
Terminated == pc \in {"returned", "raised"}

\* The properties of the symbol table, as <<class index, property index>>.
AllProperties ==
    UNION {{<<c, p>> : p \in 1..Len(symbol_table.classes[c].properties)}
           : c \in 1..Len(symbol_table.classes)}

\* The type annotation of a property beneath one Optional.
Beneath(cp) ==
    LET type_annotation == symbol_table.classes[cp[1]].properties[cp[2]].type_annotation
    IN  IF type_annotation.tag = "OptionalTypeAnnotation"
        THEN type_annotation.value
        ELSE type_annotation

\* The entity with the given name is a class of the symbol table.
IsClassName(name) ==
    \E c \in 1..Len(symbol_table.classes) : symbol_table.classes[c].name = name

\* The entity with the given name is an enumeration of the symbol table.
IsEnumerationName(name) ==
    \E e \in 1..Len(symbol_table.enumerations) : symbol_table.enumerations[e].name = name

\* The shapes that the specification supports: a primitive, a reference to an
\* enumeration or a class, a list of references to a class.
SupportedShape(anno) ==
    \/ anno.tag = "PrimitiveTypeAnnotation"
    \/ /\ anno.tag = "OurTypeAnnotation"
       /\ IsClassName(anno.our_type) \/ IsEnumerationName(anno.our_type)
    \/ /\ anno.tag = "ListTypeAnnotation"
       /\ anno.items.tag = "OurTypeAnnotation"
       /\ IsClassName(anno.items.our_type)

\* The UADataType nodes of the document built so far.
UADataTypes ==
    IF root = <<>> THEN <<>> ELSE ChildrenTagged(root[1], "UADataType")

\* The number of class nodes in the document built so far: the nodes of the
\* enumerations come first.
ClassNodeCount ==
    IF Len(UADataTypes) > Len(symbol_table.enumerations)
    THEN Len(UADataTypes) - Len(symbol_table.enumerations)
    ELSE 0

\* The node of the c-th class.
ClassNode(c) == UADataTypes[Len(symbol_table.enumerations) + c]

\* The Field elements of the definition of a UADataType node.
FieldsOf(node) ==
    ChildrenTagged(ChildrenTagged(node, "Definition")[1], "Field")

\* The returned document has a Field with a DataType for the property.
ReturnedFieldFor(cp) ==
    /\ pc = "returned"
    /\ cp[1] <= ClassNodeCount
    /\ \E f \in 1..Len(FieldsOf(ClassNode(cp[1]))) :
          /\ GetAttrib(FieldsOf(ClassNode(cp[1]))[f], "Name")
                 = <<symbol_table.classes[cp[1]].properties[cp[2]].name>>
          /\ GetAttrib(FieldsOf(ClassNode(cp[1]))[f], "DataType") /= <<>>

\* C1: whenever _generate ends, it has returned a pair in which exactly one
\* of text and errors is set: a non-empty text and no errors, or a non-empty
\* list of errors and no text.
C1_ErrorSuccessExclusivity ==
    Terminated =>
        /\ Len(result) = 1
        /\ \/ /\ result[1].text /= <<>>
              /\ result[1].text[1] /= <<>>
              /\ result[1].errors = <<>>
           \/ /\ result[1].errors /= <<>>
              /\ result[1].errors[1] /= <<>>
              /\ result[1].text = <<>>

\* C2: when a class has a property whose type annotation beneath one Optional
\* is List(Primitive(int)), the generation returns a list of errors with an
\* error in it, and no returned document has a Field with a DataType for that
\* property.
C2_ListOfIntRejectedAsError ==
    \A cp \in AllProperties :
        (Terminated /\ Beneath(cp) = ListTypeAnnotation(PrimitiveTypeAnnotation("INT"))) =>
            /\ Len(result) = 1
            /\ result[1].errors /= <<>>
            /\ Len(result[1].errors[1]) >= 1
            /\ ~ReturnedFieldFor(cp)

\* C3: a property whose type annotation beneath one Optional is
\* List(Reference(class)) is supported: when every property of the symbol
\* table has a supported shape, the generation returns the document and the
\* node of the class has a Field for that property.
C3_ListOfClassSupported ==
    \A cp \in AllProperties :
        ( /\ Terminated
          /\ \A other \in AllProperties : SupportedShape(Beneath(other))
          /\ Beneath(cp).tag = "ListTypeAnnotation" ) =>
            /\ pc = "returned"
            /\ cp[1] <= ClassNodeCount
            /\ \E f \in 1..Len(FieldsOf(ClassNode(cp[1]))) :
                  GetAttrib(FieldsOf(ClassNode(cp[1]))[f], "Name")
                      = <<symbol_table.classes[cp[1]].properties[cp[2]].name>>

\* The properties of an unsupported shape.
UnsupportedProperties ==
    {cp \in AllProperties : ~SupportedShape(Beneath(cp))}

\* C4: when properties of different classes have unsupported type
\* annotations, the generation returns a list of errors with one error for
\* each of them, and no text with it.
C4_ErrorsCollectedAcrossClasses ==
    ( /\ Terminated
      /\ \E cp1 \in UnsupportedProperties, cp2 \in UnsupportedProperties : cp1[1] /= cp2[1] ) =>
        /\ Len(result) = 1
        /\ result[1].errors /= <<>>
        /\ Len(result[1].errors[1]) = Cardinality(UnsupportedProperties)
        /\ result[1].text = <<>>

\* C5: in every state, every identifier of the mapping is at least 5000 and
\* none of the reserved ids 1, 8, 11, 12, 15, and no two entities of the mapping
\* have the same identifier.
C5_IdentifierRange ==
    /\ \A k \in 1..Len(our_type_to_identifier) :
          /\ our_type_to_identifier[k][2] >= 5000
          /\ our_type_to_identifier[k][2] \notin {1, 8, 11, 12, 15}
    /\ \A j \in 1..Len(our_type_to_identifier), k \in 1..Len(our_type_to_identifier) :
          j /= k => /\ our_type_to_identifier[j][1] /= our_type_to_identifier[k][1]
                    /\ our_type_to_identifier[j][2] /= our_type_to_identifier[k][2]

\* The allocation has ended with at least two entities in the mapping.
C5_Witness ==
    /\ pc = "aliases"
    /\ Len(our_type_to_identifier) >= 2

\* C6: the k-th entity, counted from 0, of the enumerations in declaration
\* order followed by the classes in declaration order has the identifier
\* 5000 + k; next() is called once per entity, so the machine stands at 5000
\* plus the number of entities in the mapping; after the allocation every
\* entity is in the mapping; the identifier of an enumeration is smaller than
\* that of a class.
C6_AllocationOrder ==
    LET entities == symbol_table.enumerations \o symbol_table.classes
    IN  /\ Len(our_type_to_identifier) <= Len(entities)
        /\ \A k \in 1..Len(our_type_to_identifier) :
              our_type_to_identifier[k] = <<entities[k].name, 5000 + (k - 1)>>
        /\ pc \notin {"idle", "allocate"} =>
              /\ Len(our_type_to_identifier) = Len(entities)
              /\ identifier_machine = <<[_next_identifier |-> 5000 + Len(entities)]>>
        /\ pc = "allocate" =>
              /\ Len(our_type_to_identifier) = idx - 1
              /\ identifier_machine = <<[_next_identifier |-> 5000 + (idx - 1)]>>
        /\ \A j \in 1..Len(our_type_to_identifier), k \in 1..Len(our_type_to_identifier) :
              (IsEnumerationName(our_type_to_identifier[j][1])
                   /\ IsClassName(our_type_to_identifier[k][1]))
                  => our_type_to_identifier[j][2] < our_type_to_identifier[k][2]

\* The allocation has ended on a symbol table with an enumeration and two
\* classes.
C6_Witness ==
    /\ pc = "aliases"
    /\ Len(symbol_table.enumerations) >= 1
    /\ Len(symbol_table.classes) >= 2
    /\ Len(our_type_to_identifier) >= 3

\* C7: when a call of _generate has ended, its mapping and its returned pair
\* are those of every earlier call on the same symbol table.
C7_Determinism ==
    Terminated =>
        \A h \in 1..Len(history) :
            /\ history[h].our_type_to_identifier = our_type_to_identifier
            /\ history[h].result = result

\* The second call has returned a text for a symbol table with entities.
C7_Witness ==
    /\ pc = "returned"
    /\ run >= 2
    /\ Len(history) >= 1
    /\ history[1].result /= <<>>
    /\ Len(our_type_to_identifier) >= 2

\* The Aliases elements of the document built so far.
AliasTables ==
    IF root = <<>> THEN <<>> ELSE ChildrenTagged(root[1], "Aliases")

\* The elements without the whitespace that indent() puts after them.
SansTail(elements) ==
    [k \in 1..Len(elements) |-> [elements[k] EXCEPT !.tail = <<>>]]

\* An Alias element with the given name and value.
AliasElement(name, value) ==
    [ns |-> "", tag |-> "Alias", attrib |-> << <<"Alias", name>> >>, text |-> value,
     tail |-> <<>>, children |-> <<>>]

\* C8: once the aliases are generated, the document has one alias table, with
\* |enumerations| + |classes| + 5 aliases: Boolean=i=1, Int64=i=8, Double=i=11,
\* String=i=12, ByteString=i=15, then an alias for each enumeration in
\* declaration order, then an alias for each class in declaration order, named
\* data_type_name(entity.name) with the value ns=1;i=<identifier of the entity>.
C8_AliasTable ==
    pc \in {"enums", "classes", "serialize", "returned", "raised"} =>
        /\ Len(AliasTables) = 1
        /\ LET aliases == SansTail(AliasTables[1].children)
               enum_count == Len(symbol_table.enumerations)
               class_count == Len(symbol_table.classes)
           IN  /\ Len(aliases) = enum_count + class_count + 5
               /\ SubSeq(aliases, 1, 5) =
                      << AliasElement(<<"Boolean">>, <<"i=", "1">>),
                         AliasElement(<<"Int64">>, <<"i=", "8">>),
                         AliasElement(<<"Double">>, <<"i=", "1", "1">>),
                         AliasElement(<<"String">>, <<"i=", "1", "2">>),
                         AliasElement(<<"ByteString">>, <<"i=", "1", "5">>) >>
               /\ \A e \in 1..enum_count :
                      aliases[5 + e] =
                          AliasElement(
                              data_type_name(symbol_table.enumerations[e].name),
                              <<"ns=1;i=">> \o IntToStr(
                                  Lookup(our_type_to_identifier,
                                         symbol_table.enumerations[e].name)))
               /\ \A c \in 1..class_count :
                      aliases[5 + enum_count + c] =
                          AliasElement(
                              data_type_name(symbol_table.classes[c].name),
                              <<"ns=1;i=">> \o IntToStr(
                                  Lookup(our_type_to_identifier,
                                         symbol_table.classes[c].name)))

\* The aliases are generated for a symbol table with an enumeration and two
\* classes: the table has 8 aliases.
C8_Witness ==
    /\ pc \in {"enums", "classes", "serialize", "returned", "raised"}
    /\ Len(symbol_table.enumerations) >= 1
    /\ Len(symbol_table.classes) >= 2
    /\ Len(AliasTables) = 1
    /\ Len(AliasTables[1].children) >= 8

\* The built-in type name documented for a primitive kind.
DocumentedBuiltIn(a_type) ==
    CASE a_type = "BOOL"      -> "Boolean"
      [] a_type = "INT"       -> "Int64"
      [] a_type = "FLOAT"     -> "Double"
      [] a_type = "STR"       -> "String"
      [] a_type = "BYTEARRAY" -> "ByteString"

\* The line of the returned text for a Field with the given name and data type.
FieldLine(name, data_type) ==
    <<"  ", "  ", "  ", "<", "Field", " ", "Name", "=\"">> \o name
        \o <<"\"", " ", "DataType", "=\"", data_type, "\"", "/>">>

\* C9: in every class node of the document, the Field of a property whose
\* type annotation is a primitive, bare or beneath one Optional, has as its
\* DataType the built-in name documented for the kind; a returned document has
\* the node of every class, and its text has the line of that Field.
C9_PrimitiveMapping ==
    /\ pc = "returned" => ClassNodeCount = Len(symbol_table.classes)
    /\ \A cp \in AllProperties :
          (cp[1] <= ClassNodeCount /\ Beneath(cp).tag = "PrimitiveTypeAnnotation") =>
              /\ Beneath(cp).a_type \in {"BOOL", "INT", "FLOAT", "STR", "BYTEARRAY"}
              /\ Len(FieldsOf(ClassNode(cp[1])))
                     = Len(symbol_table.classes[cp[1]].properties)
              /\ FieldsOf(ClassNode(cp[1]))[cp[2]].attrib =
                     << <<"Name", symbol_table.classes[cp[1]].properties[cp[2]].name>>,
                        <<"DataType", <<DocumentedBuiltIn(Beneath(cp).a_type)>> >> >>
              /\ pc = "returned" =>
                     \E l \in 1..Len(result[1].text[1]) :
                         result[1].text[1][l] =
                             FieldLine(symbol_table.classes[cp[1]].properties[cp[2]].name,
                                       DocumentedBuiltIn(Beneath(cp).a_type))

\* A document is returned for a class with a bare primitive property and a
\* primitive property beneath an Optional.
C9_Witness ==
    /\ pc = "returned"
    /\ \E cp1 \in AllProperties, cp2 \in AllProperties :
          /\ symbol_table.classes[cp1[1]].properties[cp1[2]].type_annotation.tag
                 = "PrimitiveTypeAnnotation"
          /\ symbol_table.classes[cp2[1]].properties[cp2[2]].type_annotation.tag
                 = "OptionalTypeAnnotation"
          /\ Beneath(cp2).tag = "PrimitiveTypeAnnotation"

\* C10: every class node of the document has one References child with one
\* Reference in it: a HasSubtype reference, not forward, to i=22, whether or
\* not the class declares a base class.
C10_HasSubtypeRoot ==
    \A c \in 1..ClassNodeCount :
        /\ Len(ChildrenTagged(ClassNode(c), "References")) = 1
        /\ SansTail(ChildrenTagged(ClassNode(c), "References")[1].children) =
               << [ns       |-> "",
                   tag      |-> "Reference",
                   attrib   |-> << <<"ReferenceType", <<"HasSubtype">> >>,
                                   <<"IsForward", <<"false">> >> >>,
                   text     |-> <<"i=22">>,
                   tail     |-> <<>>,
                   children |-> <<>>] >>

\* The node of a class that declares a base class is in the document, next to
\* the node of a class that declares none.
C10_Witness ==
    /\ ClassNodeCount >= 2
    /\ \E c \in 1..ClassNodeCount : symbol_table.classes[c].inheritances /= <<>>
    /\ \E c \in 1..ClassNodeCount : symbol_table.classes[c].inheritances = <<>>

\* execute has ended after the generation has returned a text: the returned
\* code is 0 only when the generation has returned a text and no errors and
\* nodeset.xml holds that text, written without a failure; a failure of the
\* write is reported and gives a returned code other than 0; when the
\* generation has returned errors, they are reported, no file is written and
\* the returned code is not 0.
ExecuteAfterReturn ==
    /\ (result /= <<>> /\ result[1].errors /= <<>>) =>
          /\ files = <<>>
          /\ pc = "exit" =>
                /\ Len(stderr) = 1
                /\ stderr[1].message =
                       <<"Failed to generate the OPC UA node set based on ", "meta_model.py">>
                /\ stderr[1].errors = [i \in 1..Len(result[1].errors[1]) |->
                                           error_message(result[1].errors[1][i])]
                /\ return_code /= <<>>
                /\ return_code /= <<0>>
    /\ return_code = <<0>> =>
          /\ pc = "exit"
          /\ Len(result) = 1
          /\ result[1].text /= <<>>
          /\ result[1].errors = <<>>
          /\ write_exception = <<>>
          /\ stderr = <<>>
          /\ files = << [path    |-> <<"output", "/", "nodeset.xml">>,
                         content |-> result[1].text[1],
                         partial |-> FALSE] >>
    /\ write_exception /= <<>> =>
          /\ Len(stderr) = 1
          /\ stderr[1].errors = <<write_exception>>
          /\ return_code /= <<>>
          /\ return_code /= <<0>>
    /\ files /= <<>> =>
          /\ Len(result) = 1
          /\ result[1].errors = <<>>

\* execute has returned 0 with nodeset.xml written.
ExecuteWritten ==
    /\ pc = "exit"
    /\ return_code = <<0>>
    /\ files /= <<>>
    /\ Len(symbol_table.classes) >= 1

\* execute has returned after a failure of the write that left nodeset.xml
\* with more than two lines of the text and a part of the next one.
ExecuteWriteFailure ==
    /\ pc = "exit"
    /\ write_exception /= <<>>
    /\ files /= <<>>
    /\ Len(files[1].content) > 3
    /\ Len(files[1].content) < Len(result[1].text[1])
    /\ files[1].partial
    /\ return_code = <<1>>

====
